---- MODULE Spec2Model ----
(***************************************************************************)
(* IncrementalSubnetFinder (src/subnet_finder.py): the next free subnets   *)
(* of a VPC CIDR, continuing after the existing ones.                      *)
(*                                                                         *)
(* CIDR blocks and addresses are kept as the program keeps them: as        *)
(* strings ("10.0.0.8/30"), here sequences of one-character strings.       *)
(* Formatting (str, f-strings), parsing (ipaddress.ip_network) and the     *)
(* string comparison behind sorted() are modelled by what they compute.    *)
(* Addresses are the real 32-bit values; every block of the model lies in  *)
(* 10.0.0.0/27, below 2^31: address arithmetic stays within TLC's          *)
(* integers, and IPv4Address.__add__ is never asked to pass 2^32 - 1.      *)
(***************************************************************************)
EXTENDS Integers, Sequences, FiniteSets, TLC

\* ------------------------------------------------------------------ bounds

\* Largest count a call asks for (count ranges over 0..MaxCount).
MaxCount == 3
\* Calls made in a row on one VPC, each after provisioning the previous result.
MaxCalls == 2
\* Largest number of subnets the VPC holds at construction.
MaxExisting == 2

\* ------------------------------------------------------- strings (str, int)

Digits == <<"0", "1", "2", "3", "4", "5", "6", "7", "8", "9">>

\* Code point of a character, as Python's string comparison orders them.
Ord(c) ==
    CASE c = "-" -> 45
      [] c = "." -> 46
      [] c = "/" -> 47
      [] OTHER -> 47 + (CHOOSE d \in 1..10 : Digits[d] = c)

IsDigit(c) == \E d \in 1..10 : Digits[d] = c

RECURSIVE StrNat(_)
\* str(n) for n >= 0
StrNat(n) ==
    IF n < 10 THEN <<Digits[n + 1]>>
    ELSE StrNat(n \div 10) \o <<Digits[(n % 10) + 1]>>

\* str(n) for an int
StrInt(n) == IF n < 0 THEN <<"-">> \o StrNat(-n) ELSE StrNat(n)

RECURSIVE ParseNat(_)
\* int(s) for a string of decimal digits
ParseNat(s) ==
    IF Len(s) = 0 THEN 0
    ELSE 10 * ParseNat(SubSeq(s, 1, Len(s) - 1)) + (Ord(s[Len(s)]) - 48)

AllDigits(s) == Len(s) > 0 /\ \A i \in 1..Len(s) : IsDigit(s[i])

RECURSIVE Split(_, _)
\* s.split(c)
Split(s, c) ==
    IF \A i \in 1..Len(s) : s[i] # c THEN <<s>>
    ELSE LET i == CHOOSE k \in 1..Len(s) :
                      s[k] = c /\ \A j \in 1..(k - 1) : s[j] # c
         IN  <<SubSeq(s, 1, i - 1)>> \o Split(SubSeq(s, i + 1, Len(s)), c)

\* s < t for Python strings: by code point, a proper prefix first.
StrLess(s, t) ==
    \E i \in 1..(Len(t)) :
        /\ i <= Len(s) + 1
        /\ \A j \in 1..(i - 1) : s[j] = t[j]
        /\ \/ i = Len(s) + 1
           \/ Ord(s[i]) < Ord(t[i])

RECURSIVE SortedStrs(_)
\* sorted(S) for a collection S of distinct strings
SortedStrs(S) ==
    IF S = {} THEN <<>>
    ELSE LET m == CHOOSE x \in S : \A y \in S \ {x} : StrLess(x, y)
         IN  <<m>> \o SortedStrs(S \ {m})

Range(f) == {f[i] : i \in DOMAIN f}

\* ------------------------------------------------ ipaddress (IPv4 only)

\* The i-th octet (0 the most significant) of address a.
Octet(a, i) == (a \div (2 ^ (8 * (3 - i)))) % 256

\* str(IPv4Address(a))
StrAddr(a) ==
    StrNat(Octet(a, 0)) \o <<".">> \o StrNat(Octet(a, 1)) \o <<".">>
        \o StrNat(Octet(a, 2)) \o <<".">> \o StrNat(Octet(a, 3))

\* IPv4Address._parse_octet accepts 1 to 3 digits, no leading zero, <= 255.
OctetOk(s) ==
    /\ AllDigits(s)
    /\ Len(s) <= 3
    /\ (Len(s) > 1 => s[1] # "0")
    /\ ParseNat(s) <= 255

\* IPv4Address(s): [ok, ip]
ParseAddr(s) ==
    LET parts == Split(s, ".")
    IN  IF Len(parts) = 4 /\ \A i \in 1..4 : OctetOk(parts[i])
        THEN [ok |-> TRUE,
              ip |-> ParseNat(parts[1]) * (2 ^ 24) + ParseNat(parts[2]) * (2 ^ 16)
                       + ParseNat(parts[3]) * (2 ^ 8) + ParseNat(parts[4])]
        ELSE [ok |-> FALSE, ip |-> 0]

\* IPv4Network._make_netmask on a prefix-length string: [ok, prefixlen].
\* (A string that is no decimal prefix is retried as a dotted netmask, which
\* no str(int) is: it fails with NetmaskValueError.)
ParsePrefix(s) ==
    IF AllDigits(s) /\ ParseNat(s) <= 32
    THEN [ok |-> TRUE, prefixlen |-> ParseNat(s)]
    ELSE [ok |-> FALSE, prefixlen |-> 0]

BlockSize(prefixlen) == 2 ^ (32 - prefixlen)

\* An IPv4Network value.
Net(network_address, prefixlen) ==
    [network_address |-> network_address, prefixlen |-> prefixlen]

BroadcastAddress(net) == net.network_address + BlockSize(net.prefixlen) - 1

NumAddresses(net) == BlockSize(net.prefixlen)

\* str(IPv4Network)
StrNet(net) == StrAddr(net.network_address) \o <<"/">> \o StrNat(net.prefixlen)

\* ipaddress.ip_network(s, strict): [ok, net]; not ok is a ValueError.
\* strict=False masks the host bits off; strict=True refuses them.
IpNetwork(s, strict) ==
    LET parts == Split(s, "/")
        addr == ParseAddr(parts[1])
        pfx == IF Len(parts) = 2 THEN ParsePrefix(parts[2])
               ELSE [ok |-> Len(parts) = 1, prefixlen |-> 32]
        bad == [ok |-> FALSE, net |-> Net(0, 0)]
    IN  IF ~(addr.ok /\ pfx.ok) THEN bad
        ELSE LET size == BlockSize(pfx.prefixlen)
                 base == addr.ip - (addr.ip % size)
             IN  IF strict /\ base # addr.ip THEN bad
                 ELSE [ok |-> TRUE, net |-> Net(base, pfx.prefixlen)]

\* subnet_of with the upper end of the range left unchecked.
SubnetOfLowerOnly(a, b) == b.network_address <= a.network_address

\* a.subnet_of(b)
SubnetOf(a, b) ==
    /\ b.network_address <= a.network_address
    /\ BroadcastAddress(b) >= BroadcastAddress(a)

\* ------------------------------------------------------------ the inputs

\* 10.0.0.0
BaseAddress == 10 * (2 ^ 24)

\* The VPCs' primary CIDR blocks: 10.0.0.0/28 and 10.0.0.16/28.
VpcNets == {Net(BaseAddress, 28), Net(BaseAddress + 16, 28)}

\* The subnets describe_subnets may report: the /29 and /30 blocks of
\* 10.0.0.0/27. A VPC's subnets may lie in a secondary CIDR block, so a
\* subnet outside the primary block is a possible input.
SubnetBlocks ==
    {Net(BaseAddress + 8 * k, 29) : k \in 0..3}
        \cup {Net(BaseAddress + 4 * k, 30) : k \in 0..7}

Overlaps(a, b) ==
    /\ a.network_address <= BroadcastAddress(b)
    /\ b.network_address <= BroadcastAddress(a)

PairwiseDisjoint(S) == \A a \in S : \A b \in S \ {a} : ~Overlaps(a, b)

\* AWS keeps the subnets of a VPC pairwise non-overlapping.
SubnetSets ==
    {S \in SUBSET SubnetBlocks : Cardinality(S) <= MaxExisting /\ PairwiseDisjoint(S)}

\* describe_availability_zones: no zone (or a failed call), or two zones.
AzLists == {<<>>, <<"az-a", "az-b">>}

\* new_prefix: any int. Below the VPC's prefix, each valid longer prefix,
\* and both sides outside 0..32.
RequestPrefixes == {-1} \cup (27..33)

Counts == 0..MaxCount

\* -------------------------------------------------------------- the state

VARIABLES
    vpc_cidr,           \* self.vpc_cidr: the VPC's CIDR block, a string
    existing_subnets,   \* self.existing_subnets: CIDR strings, sorted()
    available_azs,      \* self.available_azs
    pc,                 \* "idle" | "loop" | "returned" | "raised"
    new_prefix,         \* find_next_subnets' argument
    count,              \* find_next_subnets' argument
    start_ip,           \* its local start_ip
    current_ip,         \* its local current_ip
    available_subnets,  \* its local available_subnets
    returned,           \* the list the caller received (<<>> until a return)
    raised,             \* the exception the caller received (NoError until one)
    calls,              \* calls made so far
    earlier,            \* the blocks returned by the calls before this one
    initial_subnets     \* existing_subnets as first constructed

vars ==
    <<vpc_cidr, existing_subnets, available_azs, pc, new_prefix, count, start_ip,
      current_ip, available_subnets, returned, raised, calls, earlier,
      initial_subnets>>

NoError == [type |-> "none", msg |-> "none"]

\* _get_existing_subnets: the CIDR blocks describe_subnets reports, sorted()
\* as strings.
GetExistingSubnets(cidrs) == SortedStrs(cidrs)

\* __init__: the VPC's CIDR, its subnets and the zones are read once.
Init ==
    /\ vpc_cidr \in {StrNet(v) : v \in VpcNets}
    /\ existing_subnets \in
           {GetExistingSubnets({StrNet(b) : b \in S}) : S \in SubnetSets}
    /\ available_azs \in AzLists
    /\ pc = "idle"
    /\ new_prefix = 0
    /\ count = 0
    /\ start_ip = 0
    /\ current_ip = 0
    /\ available_subnets = <<>>
    /\ returned = <<>>
    /\ raised = NoError
    /\ calls = 0
    /\ earlier = {}
    /\ initial_subnets = existing_subnets

\* vpc_net = ipaddress.ip_network(self.vpc_cidr)
VpcNet == IpNetwork(vpc_cidr, TRUE).net

\* _find_last_ip: None (here -1) without subnets, else the broadcast address
\* of the last subnet of the sorted list.
FindLastIp(subnets) ==
    IF subnets = <<>> THEN -1
    ELSE BroadcastAddress(IpNetwork(subnets[Len(subnets)], TRUE).net)

\* The scan's first address.
StartIp(vpc_net, last_ip) ==
    IF last_ip = -1 THEN vpc_net.network_address ELSE last_ip + 1

\* find_next_subnets(new_prefix, count), up to its loop. A VPC is asked
\* again, after its last result was provisioned, for the same prefix.
Call(p, c) ==
    /\ pc = "idle"
    /\ calls = 0 \/ p = new_prefix
    /\ new_prefix' = p
    /\ count' = c
    /\ start_ip' = StartIp(VpcNet, FindLastIp(existing_subnets))
    /\ current_ip' = start_ip'
    /\ available_subnets' = <<>>
    /\ returned' = <<>>
    /\ raised' = NoError
    /\ calls' = calls + 1
    /\ pc' = "loop"
    /\ UNCHANGED <<vpc_cidr, existing_subnets, available_azs, earlier, initial_subnets>>

\* The loop stopping one candidate early.
LoopCondOffByOne(subnets, c) == Len(subnets) < c - 1

\* while len(available_subnets) < count
LoopCond(subnets, c) == Len(subnets) < c

\* ipaddress.ip_network(f"{current_ip}/{new_prefix}", strict=False)
NextNet(ip, p) == IpNetwork(StrAddr(ip) \o <<"/">> \o StrInt(p), FALSE)

\* usable_ips=next_net.num_addresses - 2
UsableIps(net) == NumAddresses(net) - 2

\* first_usable=str(next_net.network_address + 1)
FirstUsable(net) == StrAddr(net.network_address + 1)

\* last_usable=str(next_net.broadcast_address - 1)
LastUsable(net) == StrAddr(BroadcastAddress(net) - 1)

\* self.available_azs[len(available_subnets) % len(self.available_azs)]
SuggestedAz(azs, n) == azs[(n % Len(azs)) + 1]

\* SubnetInfo(...) for next_net, the n-th candidate (from 0).
MakeSubnetInfo(net, azs, n) ==
    [cidr_block |-> StrNet(net),
     network_address |-> StrAddr(net.network_address),
     broadcast_address |-> StrAddr(BroadcastAddress(net)),
     first_usable |-> FirstUsable(net),
     last_usable |-> LastUsable(net),
     usable_ips |-> UsableIps(net),
     suggested_az |-> SuggestedAz(azs, n)]

\* The scan pointer left on the candidate's last address.
NextIpNoAdvance(net) == BroadcastAddress(net)

\* current_ip = next_net.broadcast_address + 1
NextIp(net) == BroadcastAddress(net) + 1

\* An exception leaves find_next_subnets: its locals are gone.
Raise(e) ==
    /\ pc' = "raised"
    /\ raised' = e
    /\ UNCHANGED <<vpc_cidr, existing_subnets, available_azs, new_prefix, count,
                   start_ip, current_ip, available_subnets, returned, calls,
                   earlier, initial_subnets>>

\* except ValueError as e: raise ValueError(f"Error calculating next subnet: {e}")
Rewrapped(msg) == [type |-> "ValueError", msg |-> <<"Error calculating next subnet", msg>>]

\* raise ValueError(f"No more space in VPC CIDR ..."), as the except clause
\* re-raises it.
NoSpaceError == Rewrapped("No more space in VPC CIDR")

\* ip_network's ValueError, as the except clause re-raises it.
BadNetworkError == Rewrapped("does not appear to be an IPv4 or IPv6 network")

\* len(available_subnets) % 0
ZeroDivisionError == [type |-> "ZeroDivisionError", msg |-> "integer modulo by zero"]

\* One iteration: the candidate is inside the VPC and is appended.
Accept ==
    /\ pc = "loop"
    /\ LoopCond(available_subnets, count)
    /\ LET next == NextNet(current_ip, new_prefix)
       IN  /\ next.ok
           /\ SubnetOf(next.net, VpcNet)
           /\ available_azs # <<>>
           /\ available_subnets' =
                  Append(available_subnets,
                         MakeSubnetInfo(next.net, available_azs, Len(available_subnets)))
           /\ current_ip' = NextIp(next.net)
    /\ UNCHANGED <<vpc_cidr, existing_subnets, available_azs, pc, new_prefix, count,
                   start_ip, returned, raised, calls, earlier, initial_subnets>>

\* One iteration: ip_network refuses the prefix.
RaiseBadNetwork ==
    /\ pc = "loop"
    /\ LoopCond(available_subnets, count)
    /\ ~NextNet(current_ip, new_prefix).ok
    /\ Raise(BadNetworkError)

\* One iteration: the candidate is not inside the VPC.
RaiseNoSpace ==
    /\ pc = "loop"
    /\ LoopCond(available_subnets, count)
    /\ LET next == NextNet(current_ip, new_prefix)
       IN  next.ok /\ ~SubnetOf(next.net, VpcNet)
    /\ Raise(NoSpaceError)

\* One iteration: the candidate is inside the VPC and there is no zone to
\* suggest; ZeroDivisionError is no ValueError and passes the except clause.
RaiseZeroDivision ==
    /\ pc = "loop"
    /\ LoopCond(available_subnets, count)
    /\ LET next == NextNet(current_ip, new_prefix)
       IN  next.ok /\ SubnetOf(next.net, VpcNet)
    /\ available_azs = <<>>
    /\ Raise(ZeroDivisionError)

\* return available_subnets
Return ==
    /\ pc = "loop"
    /\ ~LoopCond(available_subnets, count)
    /\ returned' = available_subnets
    /\ pc' = "returned"
    /\ UNCHANGED <<vpc_cidr, existing_subnets, available_azs, new_prefix, count,
                   start_ip, current_ip, available_subnets, raised, calls, earlier,
                   initial_subnets>>

\* The blocks of a result.
Blocks(infos) == {IpNetwork(infos[i].cidr_block, TRUE).net : i \in DOMAIN infos}

ExistingNets == {IpNetwork(existing_subnets[i], TRUE).net : i \in DOMAIN existing_subnets}

\* The returned subnets are created in the VPC (AWS refuses one that overlaps
\* a subnet of the VPC) and the finder is constructed again:
\* _get_existing_subnets reads the list afresh.
Provision ==
    /\ pc = "returned"
    /\ returned # <<>>
    /\ calls < MaxCalls
    /\ \A b \in Blocks(returned) : \A e \in ExistingNets : ~Overlaps(b, e)
    /\ existing_subnets' =
           GetExistingSubnets(Range(existing_subnets)
                                \cup {returned[i].cidr_block : i \in DOMAIN returned})
    /\ earlier' = earlier \cup Blocks(returned)
    /\ pc' = "idle"
    /\ start_ip' = 0
    /\ current_ip' = 0
    /\ available_subnets' = <<>>
    /\ returned' = <<>>
    /\ UNCHANGED <<vpc_cidr, available_azs, new_prefix, count, raised, calls,
                   initial_subnets>>

Next ==
    \/ \E p \in RequestPrefixes, c \in Counts : Call(p, c)
    \/ Accept
    \/ RaiseBadNetwork
    \/ RaiseNoSpace
    \/ RaiseZeroDivision
    \/ Return
    \/ Provision

Spec == Init /\ [][Next]_vars

\* ------------------------------------------------------------- the claims

Done == pc \in {"returned", "raised"}

\* The block a SubnetInfo describes.
BlockOf(info) == IpNetwork(info.cidr_block, TRUE).net

InsideVpc(S) ==
    \A e \in S :
        /\ VpcNet.network_address <= e.network_address
        /\ BroadcastAddress(e) <= BroadcastAddress(VpcNet)

\* The existing subnets are pairwise non-overlapping and inside the VPC CIDR.
ExistingValid == PairwiseDisjoint(ExistingNets) /\ InsideVpc(ExistingNets)

Max(S) == CHOOSE x \in S : \A y \in S : y <= x

\* C1: with the existing subnets pairwise non-overlapping and inside the VPC
\* CIDR, no returned candidate overlaps an existing subnet or another
\* candidate of the same call.
C1_NonOverlap ==
    (pc = "returned" /\ ExistingValid) =>
        /\ \A i \in DOMAIN returned : \A e \in ExistingNets :
               ~Overlaps(BlockOf(returned[i]), e)
        /\ \A i \in DOMAIN returned : \A j \in DOMAIN returned :
               i # j => ~Overlaps(BlockOf(returned[i]), BlockOf(returned[j]))

\* C2: the scan starts one past the numerically highest address any
\* existing subnet covers, or at the VPC's network address without subnets
\* (stated for existing subnets that are non-overlapping and inside the VPC).
C2_ScanStart ==
    (pc # "idle" /\ ExistingValid) =>
        start_ip = IF existing_subnets = <<>> THEN VpcNet.network_address
                   ELSE Max({BroadcastAddress(e) : e \in ExistingNets}) + 1

\* C3: a call with count >= 1 returns exactly count candidates or raises and
\* hands the caller none; it never returns fewer than count.
C3_AllOrNothing ==
    /\ pc = "returned" => (raised = NoError /\ Len(returned) >= count)
    /\ (pc = "returned" /\ count >= 1) => Len(returned) = count
    /\ pc = "raised" => (raised # NoError /\ returned = <<>>)

\* C3's case: the space ran out after a candidate had been accepted.
C3_Witness ==
    /\ pc = "raised"
    /\ raised = NoSpaceError
    /\ Len(available_subnets) >= 1
    /\ Len(available_subnets) < count

\* C4: every candidate lies inside the VPC CIDR: its network address is at
\* or above the VPC's and its broadcast address at or below the VPC's.
C4_Containment ==
    \A i \in DOMAIN available_subnets :
        LET b == BlockOf(available_subnets[i])
        IN  /\ b.network_address >= VpcNet.network_address
            /\ BroadcastAddress(b) <= BroadcastAddress(VpcNet)
            /\ ParseAddr(available_subnets[i].network_address).ip = b.network_address
            /\ ParseAddr(available_subnets[i].broadcast_address).ip = BroadcastAddress(b)

\* C4's case: a returned list whose last candidate ends on the VPC's last
\* address.
C4_Witness ==
    /\ pc = "returned"
    /\ returned # <<>>
    /\ BroadcastAddress(BlockOf(returned[Len(returned)])) = BroadcastAddress(VpcNet)

\* The requested prefix is shorter than the VPC's or outside 0..32.
InvalidPrefix == new_prefix < VpcNet.prefixlen \/ new_prefix \notin 0..32

\* C5: a call (its count and zones valid) whose prefix is shorter than the
\* VPC's or outside 0..32 ends in an error with no candidates, of another
\* kind than the error raised when the VPC has no space left.
C5_InvalidPrefixDistinct ==
    (Done /\ InvalidPrefix /\ count >= 1 /\ available_azs # <<>>) =>
        /\ pc = "raised"
        /\ returned = <<>>
        /\ raised.type # NoSpaceError.type

\* C6: a call with count < 1 or without availability zones ends in the
\* request error (the kind the program has for it is ValueError): it neither
\* returns a list nor raises another kind of error.
C6_InvalidCountOrZones ==
    (Done /\ (count < 1 \/ available_azs = <<>>)) =>
        (pc = "raised" /\ raised.type = "ValueError")

\* C7: usable_ips is the block size minus 2 up to /30 and the block size for
\* /31 and /32, and is never negative.
C7_UsableIps ==
    pc = "returned" =>
        \A i \in DOMAIN returned :
            LET b == BlockOf(returned[i])
            IN  /\ returned[i].usable_ips =
                       IF b.prefixlen <= 30 THEN NumAddresses(b) - 2
                       ELSE NumAddresses(b)
                /\ returned[i].usable_ips >= 0

\* C8: the returned candidates are in strictly increasing order of network
\* address.
C8_StrictlyIncreasing ==
    pc = "returned" =>
        \A i \in DOMAIN returned : \A j \in DOMAIN returned :
            i < j => BlockOf(returned[i]).network_address
                       < BlockOf(returned[j]).network_address

\* C8's case: several candidates, the first aligned down from a scan start
\* inside its block.
C8_Witness ==
    /\ pc = "returned"
    /\ Len(returned) >= 2
    /\ BlockOf(returned[1]).network_address < start_ip

\* C9: for a /32 request, first_usable and last_usable are the candidate's
\* single address.
C9_SingleAddress ==
    (pc = "returned" /\ new_prefix = 32) =>
        \A i \in DOMAIN returned :
            /\ returned[i].first_usable = returned[i].network_address
            /\ returned[i].last_usable = returned[i].network_address

\* The subnets the VPC held at construction were pairwise non-overlapping
\* and inside the VPC CIDR.
InitiallyValid ==
    LET nets == {IpNetwork(initial_subnets[i], TRUE).net : i \in DOMAIN initial_subnets}
    IN  PairwiseDisjoint(nets) /\ InsideVpc(nets)

\* C10: from a valid set of subnets, with every result provisioned before
\* the next call for the same prefix, each candidate of a later call starts
\* after the last address of every candidate of the earlier calls.
C10_Incremental ==
    (pc = "returned" /\ InitiallyValid) =>
        \A i \in DOMAIN returned : \A e \in earlier :
            BlockOf(returned[i]).network_address > BroadcastAddress(e)

====
